---- MODULE Spec2Model ----
(***************************************************************************)
(* Model of src/charts/helpers/exportChart.js: the export of a chart's     *)
(* svg node to a png download.                                             *)
(*                                                                         *)
(* Markup strings are sequences of tokens (a token is a run of characters  *)
(* no pattern of the code can match inside).  JavaScript runs one call     *)
(* stack to completion: `frame` and `pc` are that stack, the heap objects  *)
(* (images, canvases, links, the document body) are the other variables.   *)
(***************************************************************************)
EXTENDS Integers, Sequences, FiniteSets, TLC

VARIABLES
    browser,    \* bowser.name
    encoder,    \* the module-level `encoder` (line 9-13)
    config,     \* the module-level `config` object (lines 15-23)
    chart,      \* the chart instance exportChart is a method of: [width, height]
    node,       \* the caller's d3 svg selection: its attributes
    calls,      \* one record per exportChart invocation made so far: what it was
                \* given, what it created, how it ended
    frame,      \* the running JavaScript frame with its parameters and locals
                \* (fn = "idle": the event loop)
    pc,         \* position inside the running frame
    imgs,       \* Image objects, in creation order
    canvases,   \* canvas elements, in creation order
    links,      \* <a> elements, in creation order
    body,       \* children of document.body: <<kind, id>>
    nzIn,       \* input of the normalizer runs (pure-function specification)
    nzOut       \* outputs of successive normalizer applications

vars == <<browser, encoder, config, chart, node, calls, frame, pc, imgs, canvases,
          links, body, nzIn, nzOut>>

exportVars == <<browser, encoder, config, chart, node, calls, frame, pc, imgs,
                canvases, links, body>>

\* what no step of an export writes
fixed == <<browser, encoder, config, chart, nzIn, nzOut>>

-----------------------------------------------------------------------------
(* Bounds *)

MaxCalls == 2       \* exportChart invocations in one behaviour
MaxLen == 3         \* tokens of an input string of the pure-function runs
MaxApply == 2       \* successive applications of the normalizer

-----------------------------------------------------------------------------
(* Values *)

\* JavaScript `undefined` where a markup string is expected
JSUndefined == <<"#undefined">>

\* String(undefined), what btoa / base-64 encode coerce their argument to
CoerceToString(v) == IF v = JSUndefined THEN <<"undefined">> ELSE v

Absent == "#absent"                    \* an omitted argument
NL == "\n"

\* config as the module creates it (lines 15-23)
Config ==
    [ styleClass      |-> "britechartStyle",
      defaultFilename |-> "britechart.png",
      chartBackground |-> "white",
      imageSourceBase |-> "data:image/svg+xml;base64," ]

\* config.styleBackgroundString (lines 20-22)
StyleBackgroundString ==
    << "<style", ">", "svg{background:", config.chartBackground, ";}", "</style", ">" >>

\* constants.lineGradientId (./constants.js)
LineGradientId == "lineGradientId"

\* colors[6] of britechartsGreySchema (./colors.js)
Grey6 == "grey6"

-----------------------------------------------------------------------------
(* String helpers *)

RECURSIVE IndexOf(_, _, _)
\* first index >= from at which token t occurs in s, 0 if none
IndexOf(s, t, from) ==
    IF from > Len(s) THEN 0
    ELSE IF s[from] = t THEN from
    ELSE IndexOf(s, t, from + 1)

\* s with s[a..b] replaced by r
Splice(s, a, b, r) == SubSeq(s, 1, a - 1) \o r \o SubSeq(s, b + 1, Len(s))

\* String.prototype.replace(t, r) with a string pattern: first occurrence only
ReplaceFirst(s, t, r) ==
    LET i == IndexOf(s, t, 1)
    IN  IF i = 0 THEN s ELSE Splice(s, i, i, r)

\* /url.*&quot;\)/ matches s[a..b+1]: "url", then any characters but line
\* terminators, then &quot; followed by ")"
UrlMatch(s, a, b) ==
    /\ a >= 1 /\ b > a /\ b + 1 <= Len(s)
    /\ s[a] = "url"
    /\ s[b] = "&quot;" /\ s[b + 1] = ")"
    /\ \A j \in (a + 1)..(b - 1) : s[j] # NL

UrlMatchStarts(s) ==
    { a \in 1..Len(s) : s[a] = "url" /\ \E b \in (a + 1)..Len(s) : UrlMatch(s, a, b) }

Min(S) == CHOOSE x \in S : \A y \in S : x <= y
Max(S) == CHOOSE x \in S : \A y \in S : x >= y

\* the replacement string of line 129
GradientUrl == << "url", "(", "&quot;", "#", LineGradientId, "&quot;", ")", ";" >>

\* html.replace(/url.*&quot;\)/, ...) : leftmost match, greedy, once (line 129)
ReplaceGradientUrl(html) ==
    LET starts == UrlMatchStarts(html)
    IN  IF starts = {} THEN html
        ELSE LET a == Min(starts)
                 b == Max({ e \in (a + 1)..Len(html) : UrlMatch(html, a, e) })
             IN  Splice(html, a, b + 1, GradientUrl)

\* the rewrite applied whatever the browser
FormatHtmlAnyBrowser(html, name) == ReplaceGradientUrl(html)

\* formatHtmlByBrowser (lines 127-133); bowser.name is the second parameter
FormatHtmlByBrowser(html, name) ==
    IF name = "Firefox" THEN ReplaceGradientUrl(html) ELSE html

\* the rule put in front of the first ">" instead of behind it
AddBackgroundBefore(html) == ReplaceFirst(html, ">", StyleBackgroundString \o <<">">>)

\* addBackground (lines 44-46)
AddBackground(html) == ReplaceFirst(html, ">", <<">">> \o StyleBackgroundString)

-----------------------------------------------------------------------------
(* Title composition *)

Digits == << "0", "1", "2", "3", "4", "5", "6", "7", "8", "9" >>
DigitValue(c) == CHOOSE d \in 0..9 : Digits[d + 1] = c
IsDigit(c) == \E d \in 0..9 : Digits[d + 1] = c

\* NaN, where a number is expected (widths are never negative)
NaN == 0 - 1

RECURSIVE ParseDigits(_, _, _)
ParseDigits(s, i, acc) ==
    IF i > Len(s) \/ ~IsDigit(s[i]) THEN acc
    ELSE ParseDigits(s, i + 1, 10 * acc + DigitValue(s[i]))

\* parseInt(d3svg.attr('width')) (line 63): the leading digits, NaN if none
ParseInt(s) == IF Len(s) = 0 \/ ~IsDigit(s[1]) THEN NaN ELSE ParseDigits(s, 1, 0)

\* !x for a number / for a string argument
FalsyNumber(n) == n = NaN \/ n = 0
FalsyString(t) == t = Absent \/ t = ""

\* the text of the JavaScript number n2/2
HalfToString(n2) ==
    LET a == IF n2 < 0 THEN 0 - n2 ELSE n2
    IN  (IF n2 < 0 THEN <<"-">> ELSE <<>>)
        \o << ToString(a \div 2) >>
        \o (IF a % 2 = 1 THEN <<".5">> ELSE <<>>)

\* the replacement template of lines 176-180
TitleMarkup(title, svgWidth, titleWidth) ==
    << "svg\"", ">", NL, "<text", "x=" >> \o HalfToString(svgWidth - titleWidth)
    \o << "y=40", "font-family='Heebo', sans-serif", "font-size=20px", "fill=", Grey6,
          ">", NL, title, NL, "</text", ">", "<g", NL >>

\* the guard without its test of the width
TitleSkippedByTitleOnly(title, svgWidth) == FalsyString(title)

\* the guard of prependTitle (line 170)
TitleSkipped(title, svgWidth) == FalsyString(title) \/ FalsyNumber(svgWidth)

\* the return of prependTitle (lines 175-180), titleWidth measured
InsertTitle(html, title, svgWidth, titleWidth) ==
    ReplaceFirst(html, "<g", TitleMarkup(title, svgWidth, titleWidth))

\* rendered widths document.getElementById('britechart_title').offsetWidth may give
OffsetWidths == { 80 }

-----------------------------------------------------------------------------
(* Collaborators *)

XmlnsAttr == "xmlns=http://www.w3.org/2000/svg"
VersionAttr == "version=1.1"

\* serializeWithStyles.initializeSerializer()(d3svg.node()) (lines 60-61): the
\* node's attributes, then its content, a group with a gradient-filled path
Serialize(n, name) ==
    << "<svg" >>
    \o (IF n.version THEN << VersionAttr >> ELSE <<>>)
    \o (IF n.xmlns THEN << XmlnsAttr >> ELSE <<>>)
    \o << "width=" >> \o n.width
    \o << ">", "<g", ">", "<path", "style=fill:", "url", "(" >>
    \o (IF name = "Firefox"
        THEN << "&quot;", "http://host/page#", LineGradientId, "&quot;", ")", ";" >>
        ELSE << "#", LineGradientId, ")", ";" >>)
    \o << "/", ">", "</g", ">", "</svg", ">" >>

\* window.btoa / base-64 encode (lines 9-13): the argument is coerced to a
\* string; the base64 text is kept as an opaque injective image of it
Encode(v) == [ b64 |-> CoerceToString(v) ]

NoSrc == [ base |-> "", payload |-> [ b64 |-> <<>> ] ]

\* `${config.imageSourceBase}${encoder(svgHtml)}` (line 90)
ImageSource(svgHtml) == [ base |-> config.imageSourceBase, payload |-> Encode(svgHtml) ]

\* whether the browser can decode the image source: an svg document in the
\* svg namespace
Decodable(src) ==
    LET m == src.payload.b64
    IN  /\ src.base = config.imageSourceBase
        /\ Len(m) > 0 /\ m[1] = "<svg"
        /\ \E j \in 1..Len(m) : m[j] = XmlnsAttr

-----------------------------------------------------------------------------
(* Heap objects *)

NoHandler == [ fn |-> "none", this |-> 0, canvas |-> 0, filename |-> Absent ]

\* a handler bound to the first image and canvas the module made
BindHandlerShared(img, canvas, filename) ==
    [ fn |-> "handleImageLoad", this |-> 1, canvas |-> 1, filename |-> filename ]

\* handleImageLoad.bind(img, canvas, filename) (lines 33-37)
BindHandler(img, canvas, filename) ==
    [ fn |-> "handleImageLoad", this |-> img, canvas |-> canvas, filename |-> filename ]

NoDraw == [ img |-> 0, x |-> 0, y |-> 0 ]

\* width and height assigned crosswise
CreateCanvasSwapped(width, height) ==
    [ width |-> height, height |-> width, drawn |-> NoDraw ]

\* createCanvas (lines 74-80)
CreateCanvas(width, height) ==
    [ width |-> width, height |-> height, drawn |-> NoDraw ]

\* drawImageOnCanvas (lines 99-101): drawImage(image, 0, 0)
DrawImageOnCanvas(image, canvas) ==
    [ canvas EXCEPT !.drawn = [ img |-> image, x |-> 0, y |-> 0 ] ]

\* canvas.toDataURL(extensionType) (line 112)
ToDataURL(canvas, extensionType) ==
    [ mime |-> extensionType, width |-> canvas.width, height |-> canvas.height,
      pixels |-> canvas.drawn ]

\* the first argument's default of line 111
DefaultedFilename(filename) == IF filename = Absent THEN "britechart.png" ELSE filename

\* filename || config.defaultFilename (line 159)
DownloadName(filename) ==
    IF FalsyString(filename) THEN config.defaultFilename ELSE filename

IdleFrame ==
    [ fn |-> "idle", call |-> 0, filename |-> Absent, title |-> Absent,
      html |-> <<>>, img |-> 0, canvas |-> 0, link |-> 0 ]

-----------------------------------------------------------------------------
(* Inputs *)

\* the browsers the page may run in: bowser.name, and whether window.btoa exists
Environments ==
    { [ name |-> "Firefox", btoa |-> TRUE ],
      [ name |-> "Chrome", btoa |-> TRUE ],
      [ name |-> "Internet Explorer", btoa |-> FALSE ] }
NodeArgs == { "node", Absent }                 \* d3svg: the selection, or nothing
Filenames == { Absent, "", "sales.png" }
Titles == { Absent, "Sales" }
NodeWidths == { << "4", "0", "0" >>, << "a", "u", "t", "o" >> }
ChartSizes == { [ width |-> 400, height |-> 200 ], [ width |-> 200, height |-> 100 ] }

\* let encoder = window.btoa; if (!encoder) encoder = require('base-64').encode
\* (lines 9-13)
SelectEncoder(btoaPresent) == IF btoaPresent THEN "window.btoa" ELSE "base-64.encode"

-----------------------------------------------------------------------------
(* Initial state: the module is loaded, nothing exported yet *)

InitExport ==
    /\ \E env \in Environments :
          /\ browser = env.name
          /\ encoder = SelectEncoder(env.btoa)
    /\ config = Config
    /\ chart \in ChartSizes
    /\ node \in [ version : {FALSE}, xmlns : {FALSE}, width : NodeWidths ]
    /\ calls = <<>>
    /\ frame = IdleFrame
    /\ pc = "idle"
    /\ imgs = <<>>
    /\ canvases = <<>>
    /\ links = <<>>
    /\ body = {}

Init == InitExport /\ nzIn = <<>> /\ nzOut = <<>>

-----------------------------------------------------------------------------
(* exportChart (lines 30-38), one step per stage *)

Idle == frame.fn = "idle"
InExport(p) == frame.fn = "exportChart" /\ pc = p
InHandler(p) == frame.fn = "handleImageLoad" /\ pc = p

\* the caller invokes chart.exportChart(d3svg, filename, title); convertSvgToHtml
\* returns undefined at once for a missing selection (lines 55-57)
ExportChart(d3svg, filename, title) ==
    /\ Idle
    /\ Len(calls) < MaxCalls
    /\ calls' = Append(calls, [ node |-> d3svg, outcome |-> "running", img |-> 0,
                                canvas |-> 0, encoded |-> <<>>, filename |-> Absent ])
    /\ frame' = [ IdleFrame EXCEPT !.fn = "exportChart", !.call = Len(calls) + 1,
                                   !.filename = filename, !.title = title,
                                   !.html = IF d3svg = Absent THEN JSUndefined ELSE <<>> ]
    /\ pc' = IF d3svg = Absent THEN "newImage" ELSE "attr"
    /\ UNCHANGED <<fixed, node, imgs, canvases, links, body>>

\* the attribute write also overwrites the node's width
WriteAttributesAndWidth ==
    /\ InExport("attr")
    /\ node' = [ node EXCEPT !.version = TRUE, !.xmlns = TRUE,
                             !.width = << "4", "0", "0" >> ]
    /\ pc' = "serialize"
    /\ UNCHANGED <<fixed, calls, frame, imgs, canvases, links, body>>

\* d3svg.attr({version: 1.1, xmlns: ...}) (line 58)
WriteAttributes ==
    /\ InExport("attr")
    /\ node' = [ node EXCEPT !.version = TRUE, !.xmlns = TRUE ]
    /\ pc' = "serialize"
    /\ UNCHANGED <<fixed, calls, frame, imgs, canvases, links, body>>

\* lines 60-61
SerializeNode ==
    /\ InExport("serialize")
    /\ frame' = [ frame EXCEPT !.html = Serialize(node, browser) ]
    /\ pc' = "format"
    /\ UNCHANGED <<fixed, node, calls, imgs, canvases, links, body>>

\* line 62
FormatHtml ==
    /\ InExport("format")
    /\ frame' = [ frame EXCEPT !.html = FormatHtmlByBrowser(frame.html, browser) ]
    /\ pc' = "title"
    /\ UNCHANGED <<fixed, node, calls, imgs, canvases, links, body>>

\* prependTitle up to the mounting of the measurement node (lines 170-173,
\* 141-144): returns the markup as it is without a title or a width
PrependTitleEnter ==
    /\ InExport("title")
    /\ IF TitleSkipped(frame.title, ParseInt(node.width))
       THEN /\ pc' = "background"
            /\ body' = body
       ELSE /\ pc' = "measure"
            /\ body' = body \cup { << "text", frame.call >> }
    /\ UNCHANGED <<fixed, node, calls, frame, imgs, canvases, links>>

\* the width is read, the node removed, the title inserted (lines 145-147, 175-180)
MeasureAndInsertTitle ==
    /\ InExport("measure")
    /\ \E titleWidth \in OffsetWidths :
          frame' = [ frame EXCEPT !.html =
                        InsertTitle(frame.html, frame.title,
                                    ParseInt(node.width), titleWidth) ]
    /\ body' = body \ { << "text", frame.call >> }
    /\ pc' = "background"
    /\ UNCHANGED <<fixed, node, calls, imgs, canvases, links>>

\* line 64, and the return of convertSvgToHtml
AddBackgroundStep ==
    /\ InExport("background")
    /\ frame' = [ frame EXCEPT !.html = AddBackground(frame.html) ]
    /\ pc' = "newImage"
    /\ UNCHANGED <<fixed, node, calls, imgs, canvases, links, body>>

\* let img = new Image() (line 88)
NewImage ==
    /\ InExport("newImage")
    /\ imgs' = Append(imgs, [ owner |-> frame.call, src |-> NoSrc, onload |-> NoHandler,
                              state |-> "empty", loadEvent |-> "none" ])
    /\ frame' = [ frame EXCEPT !.img = Len(imgs) + 1 ]
    /\ calls' = [ calls EXCEPT ![frame.call].img = Len(imgs) + 1 ]
    /\ pc' = "encode"
    /\ UNCHANGED <<fixed, node, canvases, links, body>>

\* img.src = base + encoder(svgHtml) (line 90): the browser starts loading
EncodeAndSetSrc ==
    /\ InExport("encode")
    /\ calls' = [ calls EXCEPT ![frame.call].encoded = Append(@, frame.html) ]
    /\ imgs' = [ imgs EXCEPT ![frame.img].src = ImageSource(frame.html),
                             ![frame.img].state = "loading" ]
    /\ pc' = "canvas"
    /\ UNCHANGED <<fixed, node, frame, canvases, links, body>>

\* createCanvas(this.width(), this.height()) (line 35)
CreateCanvasStep ==
    /\ InExport("canvas")
    /\ canvases' = Append(canvases, CreateCanvas(chart.width, chart.height))
    /\ frame' = [ frame EXCEPT !.canvas = Len(canvases) + 1 ]
    /\ calls' = [ calls EXCEPT ![frame.call].canvas = Len(canvases) + 1 ]
    /\ pc' = "onload"
    /\ UNCHANGED <<fixed, node, imgs, links, body>>

\* handleImageLoad.call(...) in place of .bind(...): the handler runs at once,
\* inside exportChart
SetOnloadCallsHandler ==
    /\ InExport("onload")
    /\ frame' = [ frame EXCEPT !.fn = "handleImageLoad" ]
    /\ pc' = "draw"
    /\ UNCHANGED <<fixed, node, calls, imgs, canvases, links, body>>

\* img.onload = handleImageLoad.bind(...) (lines 33-37)
SetOnload ==
    /\ InExport("onload")
    /\ imgs' = [ imgs EXCEPT ![frame.img].onload =
                    BindHandler(frame.img, frame.canvas, frame.filename) ]
    /\ pc' = "return"
    /\ UNCHANGED <<fixed, node, calls, frame, canvases, links, body>>

\* exportChart returns to its caller (line 38); the record keeps the filename
\* the call was given
Return ==
    /\ InExport("return")
    /\ calls' = [ calls EXCEPT ![frame.call].outcome = "returned",
                               ![frame.call].filename = frame.filename ]
    /\ frame' = IdleFrame
    /\ pc' = "idle"
    /\ UNCHANGED <<fixed, node, imgs, canvases, links, body>>

\* a fallible statement placed after the handler is attached
ThrowPointsAfterOnload ==
    { "attr", "serialize", "format", "title", "measure", "background",
      "encode", "canvas", "return" }

\* the positions at which the next statement calls into a collaborator and can
\* throw: every stage before the handler is attached
ThrowPoints == { "attr", "serialize", "format", "title", "measure", "background",
                 "encode", "canvas" }

\* a stage throws: nothing in the file catches, the exception unwinds exportChart
StageThrows ==
    /\ frame.fn = "exportChart"
    /\ pc \in ThrowPoints
    /\ calls' = [ calls EXCEPT ![frame.call].outcome = "threw" ]
    /\ frame' = IdleFrame
    /\ pc' = "idle"
    /\ UNCHANGED <<fixed, node, imgs, canvases, links, body>>

-----------------------------------------------------------------------------
(* The browser: image decoding and the event loop *)

\* the load event fires the moment the decode ends, on whatever handler the
\* image has by then: without one it is lost
ImageDecodedFiresAtOnce(k) ==
    /\ k \in 1..Len(imgs)
    /\ imgs[k].state = "loading"
    /\ Decodable(imgs[k].src)
    /\ imgs' = [ imgs EXCEPT ![k].state = "complete",
                             ![k].loadEvent = IF imgs[k].onload = NoHandler
                                              THEN "dispatched" ELSE "queued" ]
    /\ UNCHANGED <<fixed, node, calls, frame, pc, canvases, links, body>>

\* the image's source is decoded in the background; the load event is queued
ImageDecoded(k) ==
    /\ k \in 1..Len(imgs)
    /\ imgs[k].state = "loading"
    /\ Decodable(imgs[k].src)
    /\ imgs' = [ imgs EXCEPT ![k].state = "complete", ![k].loadEvent = "queued" ]
    /\ UNCHANGED <<fixed, node, calls, frame, pc, canvases, links, body>>

\* the source is no svg document: the image is broken, its error event has no
\* listener
ImageBroken(k) ==
    /\ k \in 1..Len(imgs)
    /\ imgs[k].state = "loading"
    /\ ~Decodable(imgs[k].src)
    /\ imgs' = [ imgs EXCEPT ![k].state = "broken" ]
    /\ UNCHANGED <<fixed, node, calls, frame, pc, canvases, links, body>>

\* the handler fired as soon as the source is assigned, decoded or not
LoadEventReadyAtSrc(k) ==
    /\ frame.fn = "idle"
    /\ k \in 1..Len(imgs)
    /\ imgs[k].state \in { "loading", "complete" }
    /\ imgs[k].loadEvent # "dispatched"

\* the event loop may take the queued load event of image k
LoadEventReady(k) ==
    /\ Idle
    /\ k \in 1..Len(imgs)
    /\ imgs[k].loadEvent = "queued"

\* the load event is dispatched to an image without an onload handler
DropLoadEvent(k) ==
    /\ LoadEventReady(k)
    /\ imgs[k].onload = NoHandler
    /\ imgs' = [ imgs EXCEPT ![k].loadEvent = "dispatched" ]
    /\ UNCHANGED <<fixed, node, calls, frame, pc, canvases, links, body>>

\* the load event is dispatched: the bound handleImageLoad starts (lines 156-157)
HandleImageLoad(k) ==
    /\ LoadEventReady(k)
    /\ imgs[k].onload # NoHandler
    /\ imgs' = [ imgs EXCEPT ![k].loadEvent = "dispatched" ]
    /\ frame' = [ IdleFrame EXCEPT !.fn = "handleImageLoad", !.call = imgs[k].owner,
                                   !.img = imgs[k].onload.this,
                                   !.canvas = imgs[k].onload.canvas,
                                   !.filename = imgs[k].onload.filename ]
    /\ pc' = "draw"
    /\ UNCHANGED <<fixed, node, calls, canvases, links, body>>

\* the canvas is converted without the image having been drawn on it
DrawStepSkipped ==
    /\ InHandler("draw")
    /\ pc' = "link"
    /\ UNCHANGED <<fixed, node, calls, frame, imgs, canvases, links, body>>

\* drawImageOnCanvas(this, canvas) (line 158)
DrawStep ==
    /\ InHandler("draw")
    /\ canvases' = [ canvases EXCEPT ![frame.canvas] = DrawImageOnCanvas(frame.img, @) ]
    /\ pc' = "link"
    /\ UNCHANGED <<fixed, node, calls, frame, imgs, links, body>>

\* the name of the download is remembered as the new default: config is written
CreateLinkStoresFilename ==
    /\ InHandler("link")
    /\ links' = Append(links,
                  [ by |-> frame.call,
                    href |-> ToDataURL(canvases[frame.canvas], "image/png"),
                    download |-> DefaultedFilename(DownloadName(frame.filename)),
                    clicks |-> 0, clicksAttached |-> 0 ])
    /\ config' = [ config EXCEPT
                     !.defaultFilename = DefaultedFilename(DownloadName(frame.filename)) ]
    /\ frame' = [ frame EXCEPT !.link = Len(links) + 1 ]
    /\ pc' = "append"
    /\ UNCHANGED <<browser, encoder, chart, nzIn, nzOut, node, calls, imgs, canvases, body>>

\* downloadCanvas up to link.download = filename (lines 159, 111-116)
CreateLink ==
    /\ InHandler("link")
    /\ links' = Append(links,
                  [ by |-> frame.call,
                    href |-> ToDataURL(canvases[frame.canvas], "image/png"),
                    download |-> DefaultedFilename(DownloadName(frame.filename)),
                    clicks |-> 0, clicksAttached |-> 0 ])
    /\ frame' = [ frame EXCEPT !.link = Len(links) + 1 ]
    /\ pc' = "append"
    /\ UNCHANGED <<fixed, node, calls, imgs, canvases, body>>

\* the link is clicked without having been attached
AppendLinkMissing ==
    /\ InHandler("append")
    /\ pc' = "click"
    /\ UNCHANGED <<fixed, node, calls, frame, imgs, canvases, links, body>>

\* document.body.appendChild(link) (line 117)
AppendLink ==
    /\ InHandler("append")
    /\ body' = body \cup { << "a", frame.link >> }
    /\ pc' = "click"
    /\ UNCHANGED <<fixed, node, calls, frame, imgs, canvases, links>>

\* link.click() (line 118)
ClickLink ==
    /\ InHandler("click")
    /\ links' = [ links EXCEPT
                    ![frame.link].clicks = @ + 1,
                    ![frame.link].clicksAttached =
                        IF << "a", frame.link >> \in body THEN @ + 1 ELSE @ ]
    /\ pc' = "remove"
    /\ UNCHANGED <<fixed, node, calls, frame, imgs, canvases, body>>

\* document.body.removeChild(link) (line 119), and the handler returns
RemoveLink ==
    /\ InHandler("remove")
    /\ body' = body \ { << "a", frame.link >> }
    /\ frame' = IdleFrame
    /\ pc' = "idle"
    /\ UNCHANGED <<fixed, node, calls, imgs, canvases, links>>

-----------------------------------------------------------------------------
(* Specification of the export pipeline *)

Next ==
    \/ \E d \in NodeArgs, f \in Filenames, t \in Titles : ExportChart(d, f, t)
    \/ WriteAttributes
    \/ SerializeNode
    \/ FormatHtml
    \/ PrependTitleEnter
    \/ MeasureAndInsertTitle
    \/ AddBackgroundStep
    \/ NewImage
    \/ EncodeAndSetSrc
    \/ CreateCanvasStep
    \/ SetOnload
    \/ Return
    \/ StageThrows
    \/ \E k \in 1..MaxCalls : ImageDecoded(k)
    \/ \E k \in 1..MaxCalls : ImageBroken(k)
    \/ \E k \in 1..MaxCalls : DropLoadEvent(k)
    \/ \E k \in 1..MaxCalls : HandleImageLoad(k)
    \/ DrawStep
    \/ CreateLink
    \/ AppendLink
    \/ ClickLink
    \/ RemoveLink

Spec == Init /\ [][Next]_vars

\* JavaScript runs to completion: a function on the stack takes its next step
RunToCompletion ==
    \/ WriteAttributes \/ SerializeNode \/ FormatHtml \/ PrependTitleEnter
    \/ MeasureAndInsertTitle \/ AddBackgroundStep \/ NewImage \/ EncodeAndSetSrc
    \/ CreateCanvasStep \/ SetOnload \/ Return
    \/ DrawStep \/ CreateLink \/ AppendLink \/ ClickLink \/ RemoveLink

\* the event loop takes a queued load event when the stack is empty
EventLoop == \E k \in 1..MaxCalls : DropLoadEvent(k) \/ HandleImageLoad(k)

\* the size of the chart has no part in the scheduling: one size
InitLive == Init /\ chart = [ width |-> 400, height |-> 200 ]

\* the pipeline with a scheduler: started functions run on, the event loop
\* dispatches what is queued; the caller and the decoder owe nothing
SpecLive == InitLive /\ [][Next]_vars /\ WF_vars(RunToCompletion) /\ WF_vars(EventLoop)

-----------------------------------------------------------------------------
(* Specification of the quirk normalizer alone: every short markup string,   *)
(* normalized again and again                                                *)

Alphabet == { "url", "&quot;", ")", ";", NL, "a" }

Strings(n) == UNION { [ 1..m -> Alphabet ] : m \in 0..n }

InitNormalize ==
    /\ InitExport
    /\ nzIn \in Strings(MaxLen)
    /\ nzOut = <<>>

\* html = formatHtmlByBrowser(html)
Normalize ==
    /\ Len(nzOut) < MaxApply
    /\ nzOut' = Append(nzOut, FormatHtmlByBrowser(IF nzOut = <<>> THEN nzIn
                                                  ELSE nzOut[Len(nzOut)], browser))
    /\ UNCHANGED <<nzIn, exportVars>>

NextNormalize == Normalize

SpecNormalize == InitNormalize /\ [][NextNormalize]_vars

-----------------------------------------------------------------------------
(* Specification of prependTitle alone: every short markup string, with and  *)
(* without a title, on nodes whose width attribute parses or not             *)

TitleAlphabet == { "<svg", ">", "<g", "a", NL }

WidthAttrs ==
    { <<>>, << "0" >>, << "a", "u", "t", "o" >>, << "4", "0", "0" >>,
      << "4", "0", "1" >>, << "4", "0", "0", "p", "x" >> }

TitleArgs == { Absent, "", "Sales" }

\* convertSvgToHtml is about to call prependTitle(html, title, parseInt(width))
InitTitle ==
    /\ \E env \in Environments :
          /\ browser = env.name
          /\ encoder = SelectEncoder(env.btoa)
    /\ config = Config
    /\ chart \in ChartSizes
    /\ node \in [ version : {TRUE}, xmlns : {TRUE}, width : WidthAttrs ]
    /\ calls = << [ node |-> "node", outcome |-> "running", img |-> 0, canvas |-> 0,
                    encoded |-> <<>>, filename |-> Absent ] >>
    /\ nzIn \in UNION { [ 1..m -> TitleAlphabet ] : m \in 0..MaxLen }
    /\ \E t \in TitleArgs :
          frame = [ IdleFrame EXCEPT !.fn = "exportChart", !.call = 1, !.title = t,
                                     !.html = nzIn ]
    /\ pc = "title"
    /\ imgs = <<>>
    /\ canvases = <<>>
    /\ links = <<>>
    /\ body = {}
    /\ nzOut = <<>>

NextTitle ==
    \/ PrependTitleEnter
    \/ MeasureAndInsertTitle

SpecTitle == InitTitle /\ [][NextTitle]_vars

-----------------------------------------------------------------------------
(* Specification of addBackground alone: every short markup string, the      *)
(* background added again and again                                          *)

AttributeTokens == { "width=400", "a" }
BackgroundAlphabet == { "<svg", ">", "<g" } \cup AttributeTokens

InitBackground ==
    /\ InitExport
    /\ nzIn \in UNION { [ 1..m -> BackgroundAlphabet ] : m \in 0..MaxLen }
    /\ nzOut = <<>>

\* html = addBackground(html)
Background ==
    /\ Len(nzOut) < MaxApply
    /\ nzOut' = Append(nzOut, AddBackground(IF nzOut = <<>> THEN nzIn
                                            ELSE nzOut[Len(nzOut)]))
    /\ UNCHANGED <<nzIn, exportVars>>

NextBackground == Background

SpecBackground == InitBackground /\ [][NextBackground]_vars

-----------------------------------------------------------------------------
(* Properties *)

CallIds == 1..Len(calls)
ImgIds == 1..Len(imgs)
LinkIds == 1..Len(links)

\* the link elements made by the continuation of call i
LinksOf(i) == { l \in LinkIds : links[l].by = i }

\* the continuation of call i is on the stack
HandlerRunsFor(i) == frame.fn = "handleImageLoad" /\ frame.call = i

\* the canvas call i created has been drawn on
CanvasDrawn(i) == calls[i].canvas # 0 /\ canvases[calls[i].canvas].drawn # NoDraw

\* the load event of the image call i created has been dispatched
LoadDispatched(i) ==
    /\ calls[i].img # 0
    /\ imgs[calls[i].img].state = "complete"
    /\ imgs[calls[i].img].loadEvent = "dispatched"

\* C1: a call without a graphic node throws nothing and has no side effect: no
\* image, no canvas, no link, no encoder call, no download.
C1_AbsentNodeNoSideEffects ==
    \A i \in CallIds :
        calls[i].node = Absent =>
            /\ calls[i].outcome # "threw"
            /\ calls[i].img = 0
            /\ calls[i].canvas = 0
            /\ calls[i].encoded = <<>>
            /\ LinksOf(i) = {}

\* C2: the draw, the link and the download of a call happen only after the load
\* event of its image; as long as that event has not occurred the call has
\* drawn nothing, made no link, downloaded nothing, and its continuation has
\* not started: it rests with its outcome as exportChart left it.
C2_OnlyAfterDecode ==
    \A i \in CallIds :
        ~LoadDispatched(i) =>
            /\ ~CanvasDrawn(i)
            /\ LinksOf(i) = {}
            /\ ~HandlerRunsFor(i)
            /\ \A k \in ImgIds : imgs[k].owner = i => imgs[k].loadEvent # "dispatched"

\* a call has returned and waits for a decode that has not come, while another
\* call's download has happened after its load event
C2_Witness ==
    \E i, j \in CallIds :
        /\ calls[i].outcome = "returned"
        /\ imgs[calls[i].img].state = "loading"
        /\ Decodable(imgs[calls[i].img].src)
        /\ frame.fn = "idle"
        /\ LoadDispatched(j)
        /\ \E l \in LinksOf(j) : links[l].clicks = 1

\* the file name a download of call i must carry
ExpectedName(i) ==
    IF calls[i].filename = Absent \/ calls[i].filename = ""
    THEN "britechart.png" ELSE calls[i].filename

AwaitingDecode(i) ==
    /\ ~CanvasDrawn(i)
    /\ LinksOf(i) = {}
    /\ imgs[calls[i].img].onload # NoHandler
    /\ imgs[calls[i].img].loadEvent # "dispatched"

\* the continuation of call i has run to its end
Finished(i) ==
    /\ LoadDispatched(i)
    /\ CanvasDrawn(i)
    /\ \E l \in LinksOf(i) : links[l].clicks = 1 /\ << "a", l >> \notin body

\* C4: the continuation of a call runs only after exportChart has returned to
\* its caller, and the wait for the load event is the only suspension: when no
\* JavaScript runs, every call has ended, and a returned one either waits for
\* its load event or has finished its download.
C4_ReturnsBeforeContinuation ==
    /\ \A i \in CallIds :
          (HandlerRunsFor(i) \/ CanvasDrawn(i) \/ LinksOf(i) # {})
              => calls[i].outcome = "returned"
    /\ frame.fn = "exportChart" => calls[frame.call].outcome = "running"
    /\ frame.fn = "idle" =>
          \A i \in CallIds :
              /\ calls[i].outcome # "running"
              /\ calls[i].outcome = "returned" => (AwaitingDecode(i) \/ Finished(i))

\* the continuation of a returned call starts
C4_Witness ==
    \E i \in CallIds :
        HandlerRunsFor(i) /\ pc = "draw" /\ calls[i].outcome = "returned"

\* C5: with several calls pending and their load events in any order, each
\* continuation draws the image its own call made, from the markup its own
\* call encoded, on the canvas its own call made, and downloads under its own
\* call's filename.
C5_Isolation ==
    /\ \A k \in ImgIds :
          /\ calls[imgs[k].owner].img = k
          /\ imgs[k].src # NoSrc =>
                imgs[k].src = ImageSource(calls[imgs[k].owner].encoded[1])
          /\ imgs[k].onload # NoHandler =>
                /\ imgs[k].onload.this = k
                /\ imgs[k].onload.canvas = calls[imgs[k].owner].canvas
    /\ frame.fn = "handleImageLoad" =>
          /\ frame.img = calls[frame.call].img
          /\ frame.canvas = calls[frame.call].canvas
          /\ frame.filename = calls[frame.call].filename
    /\ \A i \in CallIds :
          CanvasDrawn(i) => canvases[calls[i].canvas].drawn.img = calls[i].img
    /\ \A l \in LinkIds :
          /\ links[l].href.pixels.img = calls[links[l].by].img
          /\ links[l].download = ExpectedName(links[l].by)

\* two calls were pending together, the later one's image loaded first, and
\* both downloads happened, under different names and from different markup
C5_Witness ==
    /\ Len(links) = 2
    /\ links[1].by = 2 /\ links[2].by = 1
    /\ links[1].clicks = 1 /\ links[2].clicks = 1
    /\ links[1].download # links[2].download
    /\ imgs[calls[1].img].src # imgs[calls[2].img].src

\* token t occurs in markup m
HasToken(m, t) == \E j \in 1..Len(m) : m[j] = t

\* markup m holds the background style rule
HasBackgroundRule(m) ==
    \E j \in 1..Len(m) :
        /\ j + Len(StyleBackgroundString) - 1 <= Len(m)
        /\ SubSeq(m, j, j + Len(StyleBackgroundString) - 1) = StyleBackgroundString

\* C6: every value passed to the encoder is the markup of a node that carries
\* xmlns and version attributes and holds the background rule.
C6_EncoderGetsCompleteMarkup ==
    \A i \in CallIds :
        \A n \in 1..Len(calls[i].encoded) :
            LET m == calls[i].encoded[n]
            IN  /\ m[1] = "<svg"
                /\ HasToken(m, XmlnsAttr)
                /\ HasToken(m, VersionAttr)
                /\ HasBackgroundRule(m)

\* C7: a call in which a stage threw has ended with that exception at its
\* caller: none of its stages runs afterwards, no handler is attached to its
\* image, and no draw, link or download ever happens for it.
C7_ThrowMeansNoDownload ==
    \A i \in CallIds :
        calls[i].outcome = "threw" =>
            /\ frame.call # i
            /\ LinksOf(i) = {}
            /\ ~CanvasDrawn(i)
            /\ calls[i].img # 0 => imgs[calls[i].img].onload = NoHandler

\* reading the chart's size threw after the source was assigned: the image
\* loaded all the same and its load event found no handler
C7_Witness ==
    \E i \in CallIds :
        /\ calls[i].outcome = "threw"
        /\ calls[i].img # 0
        /\ imgs[calls[i].img].loadEvent = "dispatched"
        /\ frame.fn = "idle"

\* C8: once the title measurement of a call is over, by a return or by an
\* exception, its text node is no longer in the document.
C8_MeasureNodeRemoved ==
    \A i \in CallIds :
        << "text", i >> \in body =>
            (frame.fn = "exportChart" /\ frame.call = i /\ pc = "measure")

\* C9: a run of the download step makes one link, attaches it, clicks it once
\* while it is attached, and detaches it; afterwards the link is not in the
\* document.
C9_LinkLifecycle ==
    /\ \A i \in CallIds : Cardinality(LinksOf(i)) <= 1
    /\ \A l \in LinkIds :
          LET active == frame.fn = "handleImageLoad" /\ frame.link = l
              attached == << "a", l >> \in body
          IN  /\ links[l].clicks <= 1
              /\ links[l].clicksAttached = links[l].clicks
              /\ attached => (active /\ pc \in { "click", "remove" })
              /\ (active /\ pc = "append") => (links[l].clicks = 0 /\ ~attached)
              /\ (active /\ pc = "click") => (links[l].clicks = 0 /\ attached)
              /\ (active /\ pc = "remove") => (links[l].clicks = 1 /\ attached)
              /\ ~active => (links[l].clicks = 1 /\ ~attached)

\* a download step has finished: its link was clicked once and is detached
C9_Witness ==
    \E l \in LinkIds :
        /\ frame.fn = "idle"
        /\ links[l].clicks = 1 /\ links[l].clicksAttached = 1
        /\ << "a", l >> \notin body

\* C10: normalizing already normalized markup changes nothing, in every browser.
C10_NormalizeIdempotent ==
    Len(nzOut) >= 2 => nzOut[2] = nzOut[1]

\* markup m holds a match of /url.*&quot;\)/
HasUrlReference(m) == \E a, b \in 1..Len(m) : UrlMatch(m, a, b)

\* C11: the normalizer returns the markup as it is for every browser but
\* Firefox; for Firefox it puts the reference to lineGradientId in the place of
\* the url reference the pattern matches, keeps what precedes and follows it,
\* and returns markup without such a reference as it is.
C11_NormalizeRewrites ==
    Len(nzOut) >= 1 =>
        LET out == nzOut[1]
        IN  /\ browser # "Firefox" => out = nzIn
            /\ (browser = "Firefox" /\ ~HasUrlReference(nzIn)) => out = nzIn
            /\ (browser = "Firefox" /\ HasUrlReference(nzIn)) =>
                  \E a, b \in 1..Len(nzIn) :
                      /\ UrlMatch(nzIn, a, b)
                      /\ out = SubSeq(nzIn, 1, a - 1) \o GradientUrl
                                 \o SubSeq(nzIn, b + 2, Len(nzIn))

\* Firefox, markup with a url reference: the normalizer has rewritten it
C11_Witness ==
    /\ Len(nzOut) >= 1
    /\ browser = "Firefox"
    /\ HasUrlReference(nzIn)
    /\ nzOut[1] # nzIn
    /\ \E j \in 1..Len(nzOut[1]) : nzOut[1][j] = LineGradientId

\* C12: without a title, or without a width that parses to a number other
\* than zero, prependTitle mounts no measurement node and returns the markup
\* it was given.
C12_TitleSkippedIsIdentity ==
    (frame.title \in { Absent, "" } \/ ParseInt(node.width) \in { NaN, 0 }) =>
        /\ body = {}
        /\ pc # "measure"
        /\ pc = "background" => frame.html = nzIn

\* a title is given but the width attribute is no number: prependTitle has
\* returned markup holding a group tag as it was
C12_Witness ==
    /\ pc = "background"
    /\ frame.title = "Sales"
    /\ ParseInt(node.width) = NaN
    /\ HasToken(nzIn, "<g")
    /\ frame.html = nzIn

\* markup without its line breaks
StripNL(m) == SelectSeq(m, LAMBDA t : t # NL)

\* the <text> element of the title: x, y = 40, the title font, fill, the title
TextElement(title, svgWidth, titleWidth) ==
    << "<text", "x=" >> \o HalfToString(svgWidth - titleWidth)
    \o << "y=40", "font-family='Heebo', sans-serif", "font-size=20px", "fill=", Grey6,
          ">", title, "</text", ">" >>

\* C13: with a title, a width and a group tag in the markup, prependTitle
\* returns the markup with one <text> element (x = svgWidth/2 - T/2, y = 40,
\* fill grey 6, the title inside) right before the first group tag, and nothing
\* else added, removed or changed (line breaks aside).
C13_TitleInsertedBeforeGroup ==
    (/\ pc = "background"
     /\ ~TitleSkipped(frame.title, ParseInt(node.width))
     /\ HasToken(nzIn, "<g")) =>
        LET g == IndexOf(nzIn, "<g", 1)
        IN  \E titleWidth \in OffsetWidths :
                StripNL(frame.html) =
                    StripNL(SubSeq(nzIn, 1, g - 1)
                            \o TextElement(frame.title, ParseInt(node.width), titleWidth)
                            \o SubSeq(nzIn, g, Len(nzIn)))

\* position p closes the opening tag markup m begins with
ClosesOpeningTag(m, p) ==
    /\ p \in 2..Len(m)
    /\ m[1] = "<svg"
    /\ m[p] = ">"
    /\ \A j \in 2..(p - 1) : m[j] \in AttributeTokens

\* C14: for markup that begins with an opening tag, addBackground puts the rule
\* <style>svg{background:white;}</style> right after that tag and changes
\* nothing else; a second application puts one more copy there.
C14_BackgroundAfterOpeningTag ==
    \A p \in 1..Len(nzIn) :
        ClosesOpeningTag(nzIn, p) =>
            LET head == SubSeq(nzIn, 1, p)
                tail == SubSeq(nzIn, p + 1, Len(nzIn))
                rule == << "<style", ">", "svg{background:", "white", ";}", "</style", ">" >>
            IN  /\ Len(nzOut) >= 1 => nzOut[1] = head \o rule \o tail
                /\ Len(nzOut) >= 2 =>
                      /\ nzOut[2] = head \o rule \o rule \o tail
                      /\ Len(nzOut[2]) = Len(nzOut[1]) + Len(rule)

\* the background was added twice to markup that opens with a tag with an
\* attribute
C14_Witness ==
    /\ Len(nzOut) >= 2
    /\ ClosesOpeningTag(nzIn, 3)
    /\ HasBackgroundRule(nzOut[2])

\* C15: an export changes the caller's node only by writing its version and
\* xmlns attributes, and does so before it serializes the node; every other step
\* (serialization, normalization, title, background, image, handler) leaves the
\* node as it is.
C15_OnlyAttributeWrites ==
    [][ /\ node' # node =>
            /\ InExport("attr")
            /\ node' = [ node EXCEPT !.version = TRUE, !.xmlns = TRUE ]
        /\ (InExport("serialize") /\ pc' = "format") =>
            /\ node.version /\ node.xmlns
            /\ node' = node ]_vars

\* a node whose width is not a number has been given its two attributes and
\* serialized
C15_Witness ==
    /\ InExport("format")
    /\ node = [ version |-> TRUE, xmlns |-> TRUE, width |-> << "a", "u", "t", "o" >> ]
    /\ frame.html = Serialize(node, browser)

\* C16: the encoder is the one chosen when the module was loaded, window.btoa
\* where the environment has it and the base-64 package's encode otherwise, and
\* the four configuration values are the initial ones, whatever exports and
\* continuations have run.
C16_ProcessStateFixed ==
    /\ \E env \in Environments :
          /\ env.name = browser
          /\ env.btoa => encoder = "window.btoa"
          /\ ~env.btoa => encoder = "base-64.encode"
    /\ config = [ styleClass      |-> "britechartStyle",
                  defaultFilename |-> "britechart.png",
                  chartBackground |-> "white",
                  imageSourceBase |-> "data:image/svg+xml;base64," ]

\* without window.btoa, one export with a file name of its own has downloaded
\* and another one has thrown
C16_Witness ==
    /\ encoder = "base-64.encode"
    /\ frame.fn = "idle"
    /\ \E i, j \in CallIds :
          /\ calls[i].outcome = "threw"
          /\ calls[j].filename = "sales.png"
          /\ \E l \in LinksOf(j) : links[l].clicks = 1 /\ links[l].download = "sales.png"

\* the results of the four markup stages of an export of the node, each
\* computed from the result of the stage before; the title t measured as w wide
Inlined == Serialize([ node EXCEPT !.version = TRUE, !.xmlns = TRUE ], browser)
Normalized == FormatHtmlByBrowser(Inlined, browser)
Titled(normalized, t, w) ==
    IF TitleSkipped(t, ParseInt(node.width)) THEN normalized
    ELSE InsertTitle(normalized, t, ParseInt(node.width), w)
Backgrounded(t) ==
    LET normalized == Normalized
    IN  { AddBackground(Titled(normalized, t, w)) : w \in OffsetWidths }

\* the stages the running export has behind it show in what it holds
StagesOfFrame ==
    (frame.fn = "exportChart" /\ calls[frame.call].node # Absent) =>
        LET c == calls[frame.call]
        IN  /\ pc \in { "attr", "serialize" } => frame.html = <<>>
            /\ pc = "format" => frame.html = Inlined
            /\ pc \in { "title", "measure" } => frame.html = Normalized
            /\ pc = "background" =>
                  \E w \in OffsetWidths : frame.html = Titled(Normalized, frame.title, w)
            /\ pc \in { "newImage", "encode", "canvas", "onload", "return" } =>
                  frame.html \in Backgrounded(frame.title)
            /\ pc \in { "attr", "serialize", "format", "title", "measure",
                        "background", "newImage" } => c.img = 0
            /\ pc \in { "attr", "serialize", "format", "title", "measure",
                        "background", "newImage", "encode" } =>
                  /\ c.encoded = <<>>
                  /\ c.img # 0 => imgs[c.img].src = NoSrc /\ imgs[c.img].state = "empty"
            /\ pc \in { "canvas", "onload", "return" } => c.encoded = << frame.html >>

C18_AttachDetachAtomic ==
    /\ frame.fn = "idle" => body = {}
    /\ Cardinality(body) <= 1
    /\ \A e \in body :
          /\ e[1] = "text" => InExport("measure") /\ frame.call = e[2]
          /\ e[1] = "a" => frame.fn = "handleImageLoad" /\ frame.link = e[2]
                           /\ pc \in { "click", "remove" }

\* call i has returned to its caller and its image has been decoded
ReturnedAndDecoded(i) ==
    /\ i \in CallIds
    /\ calls[i].outcome = "returned"
    /\ imgs[calls[i].img].state = "complete"

\* C19: the load event is never missed, although the source is assigned before
\* the handler is attached: when exportChart has returned and the image has been
\* decoded, the continuation runs in the end and the call has exactly one
\* download; no call ever has more than one.
C19_HandlerNeverMissed ==
    /\ \A i \in 1..MaxCalls :
          ReturnedAndDecoded(i) ~>
              (/\ i \in CallIds
               /\ Finished(i)
               /\ Cardinality(LinksOf(i)) = 1
               /\ \A l \in LinksOf(i) : links[l].clicks = 1)
    /\ [](\A i \in CallIds :
            /\ Cardinality(LinksOf(i)) <= 1
            /\ \A l \in LinksOf(i) : links[l].clicks <= 1)

\* the image of the running call was decoded before exportChart has returned:
\* its load event waits for the handler attached after the fact, as did that of
\* an earlier call which has finished with its one download
C19_Witness ==
    \E i, j \in CallIds :
        /\ frame.fn = "exportChart" /\ frame.call = j /\ pc = "return"
        /\ imgs[calls[j].img].state = "complete"
        /\ imgs[calls[j].img].loadEvent = "queued"
        /\ imgs[calls[j].img].onload # NoHandler
        /\ ReturnedAndDecoded(i)
        /\ Finished(i)
        /\ Cardinality(LinksOf(i)) = 1

====
